---- MODULE Spec2Model ----
(***************************************************************************)
(* A model of p2ee: the document schema composer (DocumentMetaClass), the  *)
(* field descriptors and their validation pipeline (BaseField and its      *)
(* subclasses), and the threading helpers: the thread pool executor, the    *)
(* named-instance and singleton metaclasses, and the barrier.              *)
(***************************************************************************)
EXTENDS Integers, Sequences, FiniteSets, TLC

\* ------------------------------------------------------------------ bounds
\* Number of document classes defined one under the other (an inheritance chain).
MaxTypes == 3

\* Number of execution contexts that may run DocumentMetaClass.__init__ at once.
NumContexts == 2
\* How many times __init__ may be entered for one class.
MaxCompose == 2
\* The longest list passed to validate.
MaxLen == 2
\* The most candidate validators of a MultiEmbeddedListField.
MaxValidators == 2
\* The outside state the producers read takes the values 0..MaxClock.
MaxClock == 1

\* The largest max_threads of an executor.
MaxPool == 2
\* The longest thread_task_list of an executor.
MaxTasks == 3
\* How many values the first 8 hex digits of a uuid4 take.
NumKeys == 2
\* Number of threads that call a class at once.
NumCallers == 2
\* The n of Barrier(n), and the number of threads that call wait().
NumWaiters == 3

\* ------------------------------------------------------------- universes
None == "None"
\* Attribute names a class body may use.
Names == {"x", "y"}
\* The field descriptor objects (BaseField instances) that class bodies may bind.
Fields == {"f1", "f2"}
\* A class attribute that is not a BaseField instance.
NotField == "other"
\* The attribute is not in the class dictionary.
NoAttr == "absent"
AttrValues == Fields \cup {NotField, NoAttr}
\* What a class body may bind each name to: "x" to anything, "y" to the
\* descriptor f1 or to nothing.
AttrChoices(k) == IF k = "x" THEN AttrValues ELSE {"f1", NoAttr}
\* The class-level marker _schema_flexible: not declared, True or False.
FlagDecls == {"absent", "true", "false"}
\* A class body: its attributes and its _schema_flexible marker.
ClassDicts == [attrs : {a \in [Names -> AttrValues] : \A k \in Names : a[k] \in AttrChoices(k)},
               flex : FlagDecls]
\* The classes; class 0 is `object`, which has no _schema attribute.
Types == 1..MaxTypes
Object == 0
Contexts == 1..NumContexts

VARIABLES
    \* --- schema composition (docs/meta.py, fields/__init__.py) ---
    numDefined,      \* how many classes of the chain have been defined
    dictionary,      \* dictionary[t]: the class body of t
    schema,          \* schema[t]: cls._schema, a function name -> descriptor
    schema_flexible, \* schema_flexible[t]: cls._schema_flexible
    field_name,      \* field_name[f]: descriptor f's _field_name
    assigned,        \* assigned[f]: every name given to f, in order (history)
    \* --- DocumentMetaClass.__init__ run step by step by several contexts ---
    pc,              \* pc[c]: the line of __init__ context c is at
    cls,             \* cls[c]: the class context c is composing
    local_flexible,  \* local_flexible[c]: the local schema_flexible (line 8)
    items,           \* items[c]: what is left of dictionary.items() (line 14)
    schema_lock,     \* schema_lock[t]: "none", or "unlocked" once Lock() is stored
    composeCount,    \* composeCount[t]: how often __init__ was entered for t
    built,           \* built[t]: an __init__ of t has returned
    \* --- one field descriptor and the calls made on it (fields/__init__.py) ---
    field,           \* the descriptor: the attributes its constructor set
    clock,           \* the outside state the lazy producers read
    op,              \* the call in progress: "none", "validate" or "default"
    arg,             \* the value passed to validate
    result           \* what the call returned or raised

VARIABLES
    \* --- MultiThreadPoolExecutor (threading/executor.py) ---
    max_threads,      \* self.max_threads
    thread_task_list, \* self.thread_task_list: the number of tasks in it
    finished_threads, \* self.finished_threads
    started_threads,  \* self.started_threads
    running_threads,  \* self.running_threads: a function key -> thread
    params_count,     \* self.params_count
    thread_state,     \* thread_state[t]: "new", "alive" or "dead"
    epc,              \* the line the generator start() is at
    loop,             \* which loop of start() called get_completed_thread
    thread,           \* the local `thread` of start(): the thread to execute
    scan,             \* what is left of self.running_threads.items() (line 41)
    yielded,          \* every thread start() has yielded, in order (history)
    \* --- NamedInstanceMetaClass, SingletonMetaClass (threading/singleton.py) ---
    instances,        \* instances[k]: cls._instances, a function name -> instance
    instance_lock,    \* instance_lock[k]: the caller holding cls._instance_lock, or 0
    rpc,              \* rpc[c]: the line of __call__ caller c is at
    call,             \* call[c]: the class caller c is calling
    instance_name,    \* instance_name[c]: the local instance_name of caller c
    instance,         \* instance[c]: the local instance of caller c
    constructed,      \* every instance constructed, in order (history)
    returned,         \* every <<class, name, instance>> returned to a caller (history)
    \* --- Barrier (threading/structs.py) ---
    count,            \* self.count
    mutex,            \* self.mutex: the value of the semaphore
    barrier,          \* self.barrier: the value of the semaphore
    bpc               \* bpc[w]: the line of wait() thread w is at

composeVars == <<numDefined, dictionary, schema, schema_flexible, field_name, assigned>>
contextVars == <<pc, cls, local_flexible, items, schema_lock, composeCount, built>>
fieldVars == <<field, clock, op, arg, result>>
execVars == <<max_threads, thread_task_list, finished_threads, started_threads,
              running_threads, params_count, thread_state, epc, loop, thread, scan, yielded>>
registryVars == <<instances, instance_lock, rpc, call, instance_name, instance,
                  constructed, returned>>
barrierVars == <<count, mutex, barrier, bpc>>
threadVars == <<execVars, registryVars, barrierVars>>
ormVars == <<composeVars, contextVars, fieldVars>>
vars == <<ormVars, threadVars>>

EmptySchema == [n \in {} |-> None]
EmptyDict == [attrs |-> [n \in Names |-> NoAttr], flex |-> "absent"]

\* ------------------------------------------------- BaseField.field_name
\* The name a descriptor gets from its constructor (field_name=None by default).
\* f2 is built with an explicit field_name, f1 without.
CtorFieldName(f) == IF f = "f2" THEN "explicit" ELSE None

\* A setter that overwrites (the bug a plain attribute would have).
FieldNameSetter_Overwrite(cur, name) == name

\* @field_name.setter: the name is taken only while _field_name is None.
FieldNameSetter(cur, name) == IF cur = None THEN name ELSE cur

\* ------------------------------------------- DocumentMetaClass.__init__
\* dictionary.get('_schema_flexible', True)
GetSchemaFlexible(d) == IF d.flex = "absent" THEN TRUE ELSE d.flex = "true"

\* The keys of the class dictionary whose value is a BaseField instance.
FieldKeys(d) == {k \in Names : d.attrs[k] \in Fields}
\* The keys of the class dictionary.
DictKeys(d) == {k \in Names : d.attrs[k] # NoAttr}

\* One iteration of `for k, v in dictionary.items()`: on a BaseField, name it and
\* enter it in the schema. st = [schema, field_name, assigned].
ScanItem(k, d, st) ==
    LET v == d.attrs[k] IN
    IF v \in Fields
    THEN [schema |-> [n \in DOMAIN st.schema \cup {k} |->
                          IF n = k THEN v ELSE st.schema[n]],
          field_name |-> [st.field_name EXCEPT ![v] = FieldNameSetter(@, k)],
          assigned |-> [st.assigned EXCEPT ![v] = Append(@, k)]]
    ELSE st

\* The whole loop, over the items in the order `order`.
RECURSIVE ScanItems(_, _, _)
ScanItems(order, d, st) ==
    IF order = <<>> THEN st
    ELSE ScanItems(Tail(order), d, ScanItem(Head(order), d, st))

\* The orders in which dictionary.items() may yield the keys in S.
Orders(S) == {o \in [1..Cardinality(S) -> S] : \A i, j \in 1..Cardinality(S) : i # j => o[i] # o[j]}

\* A merge in which the parent's entries overwrite the class's own.
MergeSuper_ParentWins(own, parentHas, parentSchema) ==
    IF parentHas
    THEN [n \in DOMAIN own \cup DOMAIN parentSchema |->
              IF n \in DOMAIN parentSchema THEN parentSchema[n] ELSE own[n]]
    ELSE own

\* cls._schema.update({k: v for k, v in cls.__mro__[1]._schema.items()
\*                     if k not in cls._schema}); AttributeError is swallowed.
MergeSuper(own, parentHas, parentSchema) ==
    IF parentHas
    THEN [n \in DOMAIN own \cup DOMAIN parentSchema |->
              IF n \in DOMAIN own THEN own[n] ELSE parentSchema[n]]
    ELSE own

\* A merge of the flag that forgets the parent.
MergeFlexible_OwnOnly(own, parentHas, parentFlexible) == own

\* cls._schema_flexible = cls.__mro__[1]._schema_flexible and cls._schema_flexible;
\* AttributeError is swallowed.
MergeFlexible(own, parentHas, parentFlexible) ==
    IF parentHas THEN parentFlexible /\ own ELSE own

\* cls.__mro__[1] of class t in the chain.
Parent(t) == t - 1
\* Whether class p has a _schema attribute: `object` has none.
HasSchema(p) == p # Object

\* A class statement: the metaclass __init__ runs once, to its end, on the new
\* class t with body d.
DefineClass(t, d, order) ==
    /\ t = numDefined + 1
    /\ t <= MaxTypes
    /\ LET p == Parent(t)
           own == ScanItems(order, d,
                            [schema |-> EmptySchema, field_name |-> field_name,
                             assigned |-> assigned])
       IN /\ schema' = [schema EXCEPT ![t] =
                 MergeSuper(own.schema, HasSchema(p),
                            IF HasSchema(p) THEN schema[p] ELSE EmptySchema)]
          /\ schema_flexible' = [schema_flexible EXCEPT ![t] =
                 MergeFlexible(GetSchemaFlexible(d), HasSchema(p),
                               IF HasSchema(p) THEN schema_flexible[p] ELSE TRUE)]
          /\ field_name' = own.field_name
          /\ assigned' = own.assigned
    /\ dictionary' = [dictionary EXCEPT ![t] = d]
    /\ numDefined' = t
    /\ UNCHANGED <<contextVars, fieldVars, threadVars>>

\* No descriptor is under test and no call is in progress.
NoCall ==
    /\ op = "none"
    /\ arg = <<"none", 0>>
    /\ result = [kind |-> "ok", value |-> <<"none", 0>>, cause |-> "", names |-> <<>>]
NoField ==
    /\ field = [kind |-> "none"]
    /\ clock = 0
    /\ NoCall

\* The task indices, the keys of running_threads, the callers, the waiters.
Tasks == 1..MaxTasks
Keys == 1..NumKeys
Callers == 1..NumCallers
Waiters == 1..NumWaiters
\* The classes whose metaclass is NamedInstanceMetaClass or SingletonMetaClass.
Classes == {"Named", "Single"}
NoFunction == [n \in {} |-> None]

\* No executor is in use.
ExecutorIdle ==
    /\ max_threads = 0
    /\ thread_task_list = 0
    /\ finished_threads = 0
    /\ started_threads = 0
    /\ running_threads = NoFunction
    /\ params_count = 0
    /\ thread_state = [t \in Tasks |-> "new"]
    /\ epc = "idle"
    /\ loop = "fill"
    /\ thread = 0
    /\ scan = <<>>
    /\ yielded = <<>>
\* No class is called.
RegistryIdle ==
    /\ instances = [k \in Classes |-> NoFunction]
    /\ instance_lock = [k \in Classes |-> 0]
    /\ rpc = [c \in Callers |-> "idle"]
    /\ call = [c \in Callers |-> None]
    /\ instance_name = [c \in Callers |-> None]
    /\ instance = [c \in Callers |-> 0]
    /\ constructed = <<>>
    /\ returned = {}
\* No barrier is in use.
BarrierIdle ==
    /\ count = 0
    /\ mutex = 1
    /\ barrier = 0
    /\ bpc = [w \in Waiters |-> "idle"]
ThreadsIdle == ExecutorIdle /\ RegistryIdle /\ BarrierIdle

ContextsIdle ==
    /\ pc = [c \in Contexts |-> "idle"]
    /\ cls = [c \in Contexts |-> Object]
    /\ local_flexible = [c \in Contexts |-> TRUE]
    /\ items = [c \in Contexts |-> <<>>]
    /\ schema_lock = [t \in Types |-> "none"]
    /\ composeCount = [t \in Types |-> 0]
    /\ built = [t \in Types |-> FALSE]

Init ==
    /\ ThreadsIdle
    /\ ContextsIdle
    /\ NoField
    /\ numDefined = 0
    /\ dictionary = [t \in Types |-> EmptyDict]
    /\ schema = [t \in Types |-> EmptySchema]
    /\ schema_flexible = [t \in Types |-> TRUE]
    /\ field_name = [f \in Fields |-> CtorFieldName(f)]
    /\ assigned = [f \in Fields |-> <<>>]

Next ==
    \E t \in Types, d \in ClassDicts :
        \E order \in Orders(DictKeys(d)) : DefineClass(t, d, order)

Spec == Init /\ [][Next]_vars

\* ---------------------------------- __init__ line by line, several contexts
\* The classes exist (their bodies are fixed); a context may enter __init__ of a
\* class once the parent class has been composed.
ParentReady(t) == IF Parent(t) = Object THEN TRUE ELSE built[Parent(t)]

\* Line 8 (and line 10): the call is entered, the local flag is read.
Enter(c, t) ==
    /\ pc[c] = "idle"
    /\ ParentReady(t)
    /\ composeCount[t] < MaxCompose
    /\ pc' = [pc EXCEPT ![c] = "reset"]
    /\ cls' = [cls EXCEPT ![c] = t]
    /\ local_flexible' = [local_flexible EXCEPT ![c] = GetSchemaFlexible(dictionary[t])]
    /\ composeCount' = [composeCount EXCEPT ![t] = @ + 1]
    /\ UNCHANGED <<composeVars, items, schema_lock, built>>

\* Line 13: cls._schema = {}; line 14: the iteration over dictionary.items() starts.
ResetSchema(c) ==
    /\ pc[c] = "reset"
    /\ schema' = [schema EXCEPT ![cls[c]] = EmptySchema]
    /\ \E order \in Orders(DictKeys(dictionary[cls[c]])) :
           items' = [items EXCEPT ![c] = order]
    /\ pc' = [pc EXCEPT ![c] = "scan"]
    /\ UNCHANGED <<numDefined, dictionary, schema_flexible, field_name, assigned,
                   cls, local_flexible, schema_lock, composeCount, built>>

\* Lines 14-17: one item of the loop, or its end.
ScanNext(c) ==
    /\ pc[c] = "scan"
    /\ IF items[c] = <<>>
       THEN /\ pc' = [pc EXCEPT ![c] = "flag"]
            /\ UNCHANGED <<schema, field_name, assigned, items>>
       ELSE LET st == ScanItem(Head(items[c]), dictionary[cls[c]],
                               [schema |-> schema[cls[c]], field_name |-> field_name,
                                assigned |-> assigned])
            IN /\ schema' = [schema EXCEPT ![cls[c]] = st.schema]
               /\ field_name' = st.field_name
               /\ assigned' = st.assigned
               /\ items' = [items EXCEPT ![c] = Tail(@)]
               /\ UNCHANGED pc
    /\ UNCHANGED <<numDefined, dictionary, schema_flexible, cls, local_flexible,
                   schema_lock, composeCount, built>>

\* Lines 19-20: the own flag is stored and a Lock is created; it is never acquired.
StoreFlag(c) ==
    /\ pc[c] = "flag"
    /\ schema_flexible' = [schema_flexible EXCEPT ![cls[c]] = local_flexible[c]]
    /\ schema_lock' = [schema_lock EXCEPT ![cls[c]] = "unlocked"]
    /\ pc' = [pc EXCEPT ![c] = "merge"]
    /\ UNCHANGED <<numDefined, dictionary, schema, field_name, assigned,
                   cls, local_flexible, items, composeCount, built>>

\* Lines 21-26: the parent's entries are merged in.
MergeSchema(c) ==
    /\ pc[c] = "merge"
    /\ LET t == cls[c]
           p == Parent(t)
       IN schema' = [schema EXCEPT ![t] =
              MergeSuper(schema[t], HasSchema(p),
                         IF HasSchema(p) THEN schema[p] ELSE EmptySchema)]
    /\ pc' = [pc EXCEPT ![c] = "mergeflag"]
    /\ UNCHANGED <<numDefined, dictionary, schema_flexible, field_name, assigned,
                   cls, local_flexible, items, schema_lock, composeCount, built>>

\* Lines 27-30: the parent's flag is merged in, and __init__ returns.
MergeFlag(c) ==
    /\ pc[c] = "mergeflag"
    /\ LET t == cls[c]
           p == Parent(t)
       IN schema_flexible' = [schema_flexible EXCEPT ![t] =
              MergeFlexible(schema_flexible[t], HasSchema(p),
                            IF HasSchema(p) THEN schema_flexible[p] ELSE TRUE)]
    /\ built' = [built EXCEPT ![cls[c]] = TRUE]
    /\ pc' = [pc EXCEPT ![c] = "idle"]
    /\ UNCHANGED <<numDefined, dictionary, schema, field_name, assigned,
                   cls, local_flexible, items, schema_lock, composeCount>>

\* The class bodies the contexts compose: a parent and its child.
ConcurrentTypes == {1, 2}

InitConcurrent ==
    /\ ThreadsIdle
    /\ ContextsIdle
    /\ NoField
    /\ numDefined = MaxTypes
    /\ dictionary \in {d \in [Types -> ClassDicts] :
                          \A t \in Types \ ConcurrentTypes : d[t] = EmptyDict}
    /\ schema = [t \in Types |-> EmptySchema]
    /\ schema_flexible = [t \in Types |-> TRUE]
    /\ field_name = [f \in Fields |-> CtorFieldName(f)]
    /\ assigned = [f \in Fields |-> <<>>]

NextConcurrent ==
    /\ UNCHANGED <<fieldVars, threadVars>>
    /\ \E c \in Contexts :
        \/ \E t \in ConcurrentTypes : Enter(c, t)
        \/ ResetSchema(c)
        \/ ScanNext(c)
        \/ StoreFlag(c)
        \/ MergeSchema(c)
        \/ MergeFlag(c)

SpecConcurrent == InitConcurrent /\ [][NextConcurrent]_vars


\* ============================================================ field values
\* Python values: a pair <<t, v>> of a type tag t and a payload v.
NoneV == <<"none", 0>>
BoolV(b) == <<"bool", b>>
IntV(i) == <<"int", i>>
\* A float, as its number of halves: FloatV(5) is 2.5, FloatV(4) is 2.0.
FloatV(h) == <<"float", h>>
StrV(s) == <<"str", s>>
\* A bson ObjectId, as its 24 hex characters.
OidV(s) == <<"ObjectId", s>>
\* A datetime, as an instant.
DateV(n) == <<"datetime", n>>
\* A member of the enum class, as its name.
EnumV(m) == <<"enum", m>>
ListV(q) == <<"list", q>>
TupleV(q) == <<"tuple", q>>
SetV(S) == <<"set", S>>
\* A dict, as the sequence of its items <<key, value>>.
DictV(q) == <<"dict", q>>
\* An instance of a document class, as the class's name.
DocV(c) == <<"doc", c>>
\* A callable: a function or a class, as its name.
CallableV(n) == <<"callable", n>>

\* bool(value)
Truthy(x) ==
    CASE x[1] = "none" -> FALSE
      [] x[1] = "bool" -> x[2]
      [] x[1] \in {"int", "float"} -> x[2] # 0
      [] x[1] = "str" -> x[2] # ""
      [] x[1] \in {"list", "tuple", "dict"} -> x[2] # <<>>
      [] x[1] = "set" -> x[2] # {}
      [] OTHER -> TRUE

\* The classes a value is an instance of: bool is a subclass of int, every value
\* is an object; int stands for int and long, str for the string types.
ClassesOf(x) ==
    CASE x[1] = "bool" -> {"bool", "int", "object"}
      [] x[1] = "doc" -> {x[2], "object"}
      [] OTHER -> {x[1], "object"}

\* isinstance(value, types)
IsInstance(x, types) == ClassesOf(x) \cap types # {}

\* Whether len(value) is defined; a document instance is taken to have a length,
\* the number of its fields.
HasLen(x) == x[1] \in {"str", "list", "tuple", "set", "dict", "doc"}
\* len(value)
PyLen(x) ==
    CASE x[1] = "set" -> Cardinality(x[2])
      [] x[1] = "doc" -> 1
      [] OTHER -> Len(x[2])

\* Twice the number a numeric value stands for; the instant of a datetime.
Ord(x) ==
    CASE x[1] = "bool" -> IF x[2] THEN 2 ELSE 0
      [] x[1] = "int" -> 2 * x[2]
      [] OTHER -> x[2]
IsNumber(x) == x[1] \in {"bool", "int", "float"}
\* a == b: numbers compare by value across bool, int and float.
PyEq(a, b) == IF IsNumber(a) /\ IsNumber(b) THEN Ord(a) = Ord(b) ELSE a = b
\* value in choices
PyIn(x, S) == \E c \in S : PyEq(x, c)
\* a < b, for two numbers or two datetimes.
PyLess(a, b) == Ord(a) < Ord(b)

\* float.is_integer()
IsInteger(x) == x[2] % 2 = 0
\* int(value) of a float with an integral value
IntOfFloat(x) == IntV(x[2] \div 2)
\* float(value) of a bool or an int
FloatOfInt(x) == FloatV(Ord(x))

\* ---------------------------------------------------- outcomes of a call
Ok(x) == [kind |-> "ok", value |-> x, cause |-> "", names |-> <<>>]
\* raise InvalidFieldValueException(message, field, value)
ValueInvalid(cause, x) ==
    [kind |-> "InvalidFieldValueException", value |-> x, cause |-> cause, names |-> <<>>]
\* raise InvalidFieldDefinition('Value must be one of the permitted types :' + names)
DefinitionInvalid(names) ==
    [kind |-> "InvalidFieldDefinition", value |-> NoneV, cause |-> "permitted types",
     names |-> names]
\* An exception of the interpreter or of a library that no code here catches.
TypeError(x) == [kind |-> "TypeError", value |-> x, cause |-> "", names |-> <<>>]

\* ------------------------------------------------------ lazy producers
\* callable(x)
Callable(x) == x[1] = "callable"
\* x(): what a producer returns when the outside state it reads is clk.
Call(x, clk) ==
    CASE x[2] = "limit" -> IntV(clk)
      [] x[2] = "none" -> NoneV
      [] x[2] = "list" -> ListV(<<>>)
      [] x[2] = "ObjectId" -> OidV("generated")
      [] x[2] = "utcnow" -> DateV(clk)
      [] OTHER -> NoneV

\* ------------------------------------------------------------ BaseField
\* The attributes of a descriptor; a constructor sets those of its class.
\* choices, min_length, max_length, regex, max_items, key_validator and
\* value_validator hold <<>> for None and <<x>> for the value x.
BlankField ==
    [kind |-> "BaseField", default |-> NoneV, choices |-> <<>>, required |-> FALSE,
     field_name |-> None, allowed_types |-> {},
     min_value |-> NoneV, max_value |-> NoneV,
     min_length |-> <<>>, max_length |-> <<>>, regex |-> <<>>, allow_empty |-> TRUE,
     element_validators |-> <<>>, max_items |-> <<>>, container_type |-> "list",
     key_validator |-> <<>>, value_validator |-> <<>>]

\* BaseField.__init__
BaseField(kind, default, choices, required, allowed_types) ==
    [BlankField EXCEPT !.kind = kind, !.default = default, !.choices = choices,
                       !.required = required, !.allowed_types = allowed_types]

\* A default that is resolved once and for all, at the first state of the clock.
Default_Cached(f, clk) ==
    LET value == IF ~Callable(f.default) THEN f.default ELSE Call(f.default, 0)
    IN IF f.required /\ value = NoneV THEN ValueInvalid("required", NoneV) ELSE Ok(value)

\* BaseField.default
Default(f, clk) ==
    LET value == IF ~Callable(f.default) THEN f.default ELSE Call(f.default, clk)
    IN IF f.required /\ value = NoneV THEN ValueInvalid("required", NoneV) ELSE Ok(value)

\* BaseField._instance_check
BaseInstanceCheck(f, x) ==
    IF ~IsInstance(x, f.allowed_types) THEN ValueInvalid("type", x) ELSE Ok(x)

\* bson's ObjectId.is_valid on a string of 24 characters.
HexStrings == {"0123456789abcdef01234567"}
\* ObjectIdField._instance_check
ObjectIdInstanceCheck(f, x) ==
    IF ~IsInstance(x, f.allowed_types)
    THEN IF ~Truthy(x) THEN ValueInvalid("type", x)
         ELSE IF ~HasLen(x) THEN TypeError(x)
         ELSE IF PyLen(x) = 24 /\ x[1] = "str" /\ x[2] \in HexStrings THEN Ok(OidV(x[2]))
         ELSE ValueInvalid("type", x)
    ELSE Ok(x)

\* The members of the enum class.
EnumMembers == {"RED", "BLUE"}
\* enum_class.fromStr(value): the member of that name, or None.
FromStr(x) == IF x[1] = "str" /\ x[2] \in EnumMembers THEN EnumV(x[2]) ELSE NoneV
\* EnumField._instance_check
EnumInstanceCheck(f, x) ==
    IF ~IsInstance(x, {"enum"})
    THEN LET value_enum == FromStr(x)
         IN IF ~Truthy(value_enum) THEN ValueInvalid("enum", value_enum)
            ELSE BaseInstanceCheck(f, value_enum)
    ELSE BaseInstanceCheck(f, x)

\* IntField._instance_check
IntInstanceCheck(f, x) ==
    IF x[1] = "float" /\ IsInteger(x) THEN BaseInstanceCheck(f, IntOfFloat(x))
    ELSE BaseInstanceCheck(f, x)

\* FloatField._instance_check
FloatInstanceCheck(f, x) ==
    IF IsInstance(x, {"int"}) THEN BaseInstanceCheck(f, FloatOfInt(x))
    ELSE BaseInstanceCheck(f, x)

\* dateutil's parser.parse on a string: the instant, or -1 for a ValueError.
ParseDate(s) == IF s = "2020-01-01" THEN 1 ELSE -1
\* DateTimeField._instance_check: parser.parse raises ValueError on a string that
\* holds no date, and TypeError on what is not a string.
DateTimeInstanceCheck(f, x) ==
    IF x # NoneV /\ ~IsInstance(x, {"datetime"})
    THEN IF x[1] # "str" THEN TypeError(x)
         ELSE IF ParseDate(x[2]) < 0 THEN ValueInvalid("type", x)
         ELSE BaseInstanceCheck(f, DateV(ParseDate(x[2])))
    ELSE BaseInstanceCheck(f, x)

\* self._instance_check(value), by the class of the descriptor.
InstanceCheck(f, x) ==
    CASE f.kind = "ObjectIdField" -> ObjectIdInstanceCheck(f, x)
      [] f.kind = "EnumField" -> EnumInstanceCheck(f, x)
      [] f.kind = "IntField" -> IntInstanceCheck(f, x)
      [] f.kind = "FloatField" -> FloatInstanceCheck(f, x)
      [] f.kind = "DateTimeField" -> DateTimeInstanceCheck(f, x)
      [] OTHER -> BaseInstanceCheck(f, x)

\* A validate that applies the required check to the value as passed, before
\* the type check.
BaseValidate_RequiredFirst(f, x) ==
    LET Checked(r) ==
            IF r.kind # "ok" THEN r
            ELSE IF f.choices # <<>> /\ ~PyIn(r.value, f.choices[1])
                 THEN ValueInvalid("choices", r.value)
            ELSE Ok(r.value)
    IN IF f.required /\ x = NoneV THEN ValueInvalid("required", x)
       ELSE Checked(InstanceCheck(f, x))

\* BaseField.validate
BaseValidate(f, x) ==
    LET Checked(r) ==
            IF r.kind # "ok" THEN r
            ELSE IF f.required /\ r.value = NoneV THEN ValueInvalid("required", r.value)
            ELSE IF f.choices # <<>> /\ ~PyIn(r.value, f.choices[1])
                 THEN ValueInvalid("choices", r.value)
            ELSE Ok(r.value)
    IN Checked(InstanceCheck(f, x))

\* --------------------------------------------------------- BoundedField
\* BoundedField.min_value
MinValue(f, clk) == IF Callable(f.min_value) THEN Call(f.min_value, clk) ELSE f.min_value
\* BoundedField.max_value
MaxValue(f, clk) == IF Callable(f.max_value) THEN Call(f.max_value, clk) ELSE f.max_value

\* A min check that rejects the bound itself.
MinCheck_Exclusive(f, x, clk) ==
    MinValue(f, clk) # NoneV /\ ~PyLess(MinValue(f, clk), x)

\* BoundedField._min_check: whether it raises.
MinCheck(f, x, clk) ==
    MinValue(f, clk) # NoneV /\ PyLess(x, MinValue(f, clk))

\* BoundedField._max_check: whether it raises.
MaxCheck(f, x, clk) ==
    MaxValue(f, clk) # NoneV /\ PyLess(MaxValue(f, clk), x)

\* BoundedField.validate
BoundedValidate(f, x, clk) ==
    LET Bounded(r) ==
            IF r.kind # "ok" THEN r
            ELSE IF MinCheck(f, r.value, clk) THEN ValueInvalid("min", r.value)
            ELSE IF MaxCheck(f, r.value, clk) THEN ValueInvalid("max", r.value)
            ELSE Ok(r.value)
    IN Bounded(BaseValidate(f, x))

\* ---------------------------------------------------------- StringField
\* The strings the blank test ^(?!\s*$).+ does not match.
BlankStrings == {"", " "}
\* StringField.validate; regex <<S>> stands for a pattern that matches the strings in S.
StringValidate(f, x) ==
    LET Measured(r) ==
            IF r.kind # "ok" THEN r
            ELSE IF f.max_length # <<>> /\ PyLen(r.value) > f.max_length[1]
                 THEN ValueInvalid("max_length", r.value)
            ELSE IF f.min_length # <<>> /\ PyLen(r.value) < f.min_length[1]
                 THEN ValueInvalid("min_length", r.value)
            ELSE IF f.regex # <<>> /\ r.value[2] \notin f.regex[1]
                 THEN ValueInvalid("regex", r.value)
            ELSE IF ~f.allow_empty /\ r.value[2] \in BlankStrings
                 THEN ValueInvalid("empty", r.value)
            ELSE Ok(r.value)
    IN Measured(BaseValidate(f, x))

\* The strings EmailField.EMAIL_REGEX matches.
EmailStrings == {"a@b.io"}
\* EmailField.validate
EmailValidate(f, x) ==
    LET Matched(r) ==
            IF r.kind # "ok" THEN r
            ELSE IF r.value[2] \notin EmailStrings THEN ValueInvalid("email", r.value)
            ELSE Ok(r.value)
    IN Matched(StringValidate(f, x))

\* validate of a descriptor that is no container.
ScalarValidate(f, x, clk) ==
    CASE f.kind \in {"IntField", "FloatField", "DateTimeField"} -> BoundedValidate(f, x, clk)
      [] f.kind = "StringField" -> StringValidate(f, x)
      [] f.kind = "EmailField" -> EmailValidate(f, x)
      [] OTHER -> BaseValidate(f, x)

\* ----------------------------------------------------- the constructors
\* StringField.__init__
StringField(regex, min_length, max_length, allow_empty, required) ==
    [BaseField("StringField", NoneV, <<>>, required, {"str"})
        EXCEPT !.regex = regex, !.min_length = min_length, !.max_length = max_length,
               !.allow_empty = allow_empty]
\* EmailField: StringField.__init__
EmailField(required) ==
    [StringField(<<>>, <<>>, <<>>, TRUE, required) EXCEPT !.kind = "EmailField"]
\* ObjectIdField.__init__
ObjectIdField(required) ==
    BaseField("ObjectIdField", CallableV("ObjectId"), <<>>, required, {"ObjectId"})
\* EnumField.__init__: choices or list(self.enum_class)
EnumField(choices, required) ==
    BaseField("EnumField", NoneV,
              IF choices = <<>> \/ choices = <<{}>> THEN <<{EnumV(m) : m \in EnumMembers}>> ELSE choices,
              required, {"enum"})
\* BoundedField.__init__ under IntField.__init__
IntField(min_value, max_value, default, choices, required) ==
    [BaseField("IntField", default, choices, required, {"int"})
        EXCEPT !.min_value = min_value, !.max_value = max_value]
\* FloatField.__init__
FloatField(min_value, max_value, required) ==
    [BaseField("FloatField", NoneV, <<>>, required, {"float"})
        EXCEPT !.min_value = min_value, !.max_value = max_value]
\* BooleanField.__init__
BooleanField(required) == BaseField("BooleanField", BoolV(FALSE), <<>>, required, {"bool"})
\* DateTimeField.__init__
DateTimeField(min_value, max_value, required) ==
    [BaseField("DateTimeField", CallableV("utcnow"), <<>>, required, {"datetime"})
        EXCEPT !.min_value = min_value, !.max_value = max_value]
\* ObjectField.__init__
ObjectField(default, choices, required) ==
    BaseField("ObjectField", default, choices, required, {"object"})

\* -------------------------------------------------------- EmbeddedField
\* The document class of the embedded fields.
Document == "Doc"
\* EmbeddedField.__init__
EmbeddedField(required) == BaseField("EmbeddedField", NoneV, <<>>, required, {Document})
\* self.document(**value): keywords must be strings; the record is then built
\* from the mapping.
Construct(x) ==
    IF \E i \in 1..Len(x[2]) : x[2][i][1][1] # "str" THEN TypeError(x) ELSE Ok(DocV(Document))
\* EmbeddedField.validate
EmbeddedValidate(f, x) ==
    LET Built(doc) == IF doc.kind # "ok" THEN doc ELSE BaseValidate(f, doc.value)
    IN IF x[1] = "dict" THEN Built(Construct(x)) ELSE BaseValidate(f, x)

\* validate of a descriptor used as the validator of an element, a key or a value.
ElementValidate(f, x, clk) ==
    IF f.kind = "EmbeddedField" THEN EmbeddedValidate(f, x) ELSE ScalarValidate(f, x, clk)

\* ----------------------------------------------- MultiEmbeddedListField
\* MultiEmbeddedListField.__init__
MultiEmbeddedListField(element_validators, max_items, container_type, required) ==
    [BaseField("MultiEmbeddedListField", NoneV, <<>>, required, {"list", "tuple", "set"})
        EXCEPT !.element_validators = element_validators, !.max_items = max_items,
               !.container_type = container_type]
\* ListField.__init__: [element_validator] if element_validator else []
ListField(element_validator, max_items, required) ==
    [MultiEmbeddedListField(element_validator, max_items, "list", required)
        EXCEPT !.kind = "ListField"]

\* The name validate records for a candidate that rejected the element.
DisplayName(ev) == IF ev.kind = "EmbeddedField" THEN Document ELSE ev.kind

\* The elements of a set in the order of iteration.
RECURSIVE SetItems(_)
SetItems(S) == IF S = {} THEN <<>> ELSE LET e == CHOOSE e \in S : TRUE
                                        IN <<e>> \o SetItems(S \ {e})
\* for val in value
Iterate(x) == IF x[1] = "set" THEN SetItems(x[2]) ELSE x[2]

\* self.container_type()
NewContainer(container_type) ==
    CASE container_type = "list" -> ListV(<<>>)
      [] container_type = "set" -> SetV({})
      [] OTHER -> TupleV(<<>>)

\* MultiEmbeddedListField.add_value
AddValue(f, container, x) ==
    CASE f.container_type = "list" -> ListV(Append(container[2], x))
      [] f.container_type = "set" ->
             IF PyIn(x, container[2]) THEN container ELSE SetV(container[2] \cup {x})
      [] OTHER -> container

\* The inner loop of validate, lines 277-287: the candidates left to try on val.
\* Yields the outcome that ends the loop (the value of the first candidate that
\* accepts, None when every candidate raised InvalidFieldValueException, or
\* another exception, which is not caught) and the names recorded so far.
RECURSIVE TryValidators(_, _, _, _)
TryValidators(validators, val, names, clk) ==
    LET Tried(r) ==
            IF r.kind = "ok" THEN [out |-> r, names |-> names]
            ELSE IF r.kind = "InvalidFieldValueException"
                 THEN TryValidators(Tail(validators), val,
                                    Append(names, DisplayName(Head(validators))), clk)
            ELSE [out |-> r, names |-> names]
    IN IF validators = <<>> THEN [out |-> Ok(NoneV), names |-> names]
       ELSE Tried(ElementValidate(Head(validators), val, clk))

\* The outer loop of validate, lines 276-293, over the values left.
RECURSIVE ValidateElements(_, _, _, _, _)
ValidateElements(f, vals, container, names, clk) ==
    LET Kept(t) ==
            IF t.out.kind # "ok" THEN t.out
            ELSE IF Truthy(t.out.value)
                 THEN ValidateElements(f, Tail(vals), AddValue(f, container, t.out.value),
                                       t.names, clk)
            ELSE DefinitionInvalid(t.names)
    IN IF vals = <<>> THEN Ok(container)
       ELSE Kept(TryValidators(f.element_validators, Head(vals), names, clk))

\* self.container_type(value)
RECURSIVE Convert(_, _)
Convert(container_type, q) ==
    IF q = <<>> THEN NewContainer(container_type)
    ELSE LET c == Convert(container_type, SubSeq(q, 1, Len(q) - 1))
             x == q[Len(q)]
         IN CASE container_type = "list" -> ListV(Append(c[2], x))
              [] container_type = "set" -> IF PyIn(x, c[2]) THEN c ELSE SetV(c[2] \cup {x})
              [] OTHER -> TupleV(Append(c[2], x))

\* MultiEmbeddedListField.validate
ListValidate(f, x, clk) ==
    LET Sized(c) ==
            IF c.kind # "ok" THEN c
            ELSE IF f.max_items # <<>> /\ f.max_items[1] # 0
                    /\ PyLen(c.value) > f.max_items[1]
                 THEN ValueInvalid("max_items", IntV(PyLen(c.value)))
            ELSE BaseValidate(f, c.value)
        Checked(r) ==
            IF r.kind # "ok" THEN r
            ELSE IF f.element_validators # <<>>
                 THEN Sized(ValidateElements(f, Iterate(x), NewContainer(f.container_type),
                                             <<>>, clk))
            ELSE IF ~IsInstance(x, {f.container_type})
                 THEN Sized(Ok(Convert(f.container_type, Iterate(x))))
            ELSE Sized(Ok(x))
    IN Checked(BaseInstanceCheck(f, x))

\* ------------------------------------------------------------ DictField
\* DictField.__init__
DictField(key_validator, value_validator, required) ==
    [BaseField("DictField", NoneV, <<>>, required, {"dict"})
        EXCEPT !.key_validator = key_validator, !.value_validator = value_validator]

\* value_dict[validated_key] = validated_value
DictSet(q, k, x) ==
    IF \E i \in 1..Len(q) : PyEq(q[i][1], k)
    THEN [i \in 1..Len(q) |-> IF PyEq(q[i][1], k) THEN <<q[i][1], x>> ELSE q[i]]
    ELSE Append(q, <<k, x>>)

\* The loop of DictField.validate over the items left.
RECURSIVE ValidateItems(_, _, _, _)
ValidateItems(f, its, value_dict, clk) ==
    LET key == Head(its)[1]
        val == Head(its)[2]
        Stored(k, w) ==
            IF w.kind # "ok" THEN w
            ELSE ValidateItems(f, Tail(its), DictSet(value_dict, k.value, w.value), clk)
        Keyed(k) ==
            IF k.kind # "ok" THEN k
            ELSE IF f.value_validator # <<>>
                 THEN Stored(k, ElementValidate(f.value_validator[1], val, clk))
            ELSE Stored(k, Ok(val))
    IN IF its = <<>> THEN Ok(DictV(value_dict))
       ELSE IF f.key_validator # <<>>
            THEN Keyed(ElementValidate(f.key_validator[1], key, clk))
       ELSE Keyed(Ok(key))

\* DictField.validate
DictValidate(f, x, clk) ==
    LET Copied(d) == IF d.kind # "ok" THEN d ELSE BaseValidate(f, d.value)
        Checked(r) ==
            IF r.kind # "ok" THEN r
            ELSE IF f.key_validator # <<>> \/ f.value_validator # <<>>
                 THEN Copied(ValidateItems(f, x[2], <<>>, clk))
            ELSE Copied(Ok(x))
    IN Checked(BaseInstanceCheck(f, x))

\* field.validate(value), by the class of the descriptor.
Validate(f, x, clk) ==
    CASE f.kind \in {"MultiEmbeddedListField", "ListField"} -> ListValidate(f, x, clk)
      [] f.kind = "DictField" -> DictValidate(f, x, clk)
      [] OTHER -> ElementValidate(f, x, clk)

\* ------------------------------------------- the descriptors and the values
\* The sequences over S of the lengths in 0..n.
SeqsUpTo(S, n) == UNION {[1..k -> S] : k \in 0..n}

HexString == "0123456789abcdef01234567"
\* The values that are no list, tuple or set.
ScalarValues ==
    {NoneV, BoolV(TRUE), BoolV(FALSE), IntV(0), IntV(1), IntV(2), IntV(5),
     FloatV(0), FloatV(2), FloatV(5),
     StrV(""), StrV(" "), StrV("a"), StrV("ab"), StrV("a@b.io"), StrV(HexString),
     StrV("zzzzzzzzzzzzzzzzzzzzzzzz"), StrV("2020-01-01"), StrV("RED"),
     OidV(HexString), DateV(0), DateV(1), DateV(2), EnumV("RED"), EnumV("BLUE"),
     DocV(Document), DocV("Other"),
     DictV(<<>>), DictV(<< <<StrV("a"), IntV(1)>> >>), DictV(<< <<IntV(1), StrV("a")>> >>)}
\* The values that are elements of the lists.
Elements == {IntV(0), IntV(1), StrV("a"), FloatV(5), NoneV}
ListValues ==
    {ListV(q) : q \in SeqsUpTo(Elements, MaxLen)}
    \cup {TupleV(<<>>), TupleV(<<IntV(1), StrV("a")>>), SetV({}), SetV({IntV(1)})}
Values == ScalarValues \cup ListValues

Opt(S) == {<<>>} \cup {<<x>> : x \in S}

PlainInt == IntField(NoneV, NoneV, NoneV, <<>>, FALSE)
PlainString == StringField(<<>>, <<>>, <<>>, TRUE, FALSE)
PlainFloat == FloatField(NoneV, NoneV, FALSE)
\* The candidate validators of the list fields.
ElementValidators == {PlainInt, PlainString, ObjectIdField(FALSE)}

StringConfigs ==
    {StringField(r, mn, mx, ae, FALSE) :
        r \in Opt({{"a", "ab"}}), mn \in Opt({1}), mx \in Opt({1}), ae \in BOOLEAN}
    \cup {PlainString, StringField(<<>>, <<>>, <<>>, TRUE, TRUE)}
IntConfigs ==
    {IntField(mn, mx, NoneV, <<>>, FALSE) :
        mn \in {NoneV, IntV(0), IntV(1), CallableV("limit")},
        mx \in {NoneV, IntV(1), IntV(2), CallableV("limit")}}
    \cup {IntField(NoneV, NoneV, d, <<>>, rq) :
        d \in {NoneV, IntV(0), CallableV("limit"), CallableV("none")}, rq \in BOOLEAN}
    \cup {IntField(NoneV, NoneV, NoneV, <<{IntV(0), IntV(1)}>>, rq) : rq \in BOOLEAN}
FloatConfigs ==
    {FloatField(mn, mx, rq) :
        mn \in {NoneV, FloatV(2), IntV(1)}, mx \in {NoneV, FloatV(5)}, rq \in BOOLEAN}
DateTimeConfigs ==
    {DateTimeField(mn, mx, FALSE) :
        mn \in {NoneV, DateV(1), CallableV("utcnow")},
        mx \in {NoneV, DateV(1), CallableV("utcnow")}}
    \cup {DateTimeField(NoneV, NoneV, TRUE)}
ObjectConfigs ==
    {ObjectField(d, ch, rq) :
        d \in {NoneV, IntV(0), CallableV("limit"), CallableV("none"), CallableV("list")},
        ch \in {<<>>, <<{NoneV, IntV(1)}>>, <<{IntV(1)}>>}, rq \in BOOLEAN}
OtherConfigs ==
    UNION {{EmailField(rq), ObjectIdField(rq), BooleanField(rq), EmbeddedField(rq),
            EnumField(<<>>, rq), EnumField(<<{EnumV("RED")}>>, rq)} : rq \in BOOLEAN}
MultiConfigs ==
    {MultiEmbeddedListField(vs, mi, ct, FALSE) :
        vs \in SeqsUpTo(ElementValidators, MaxValidators), mi \in Opt({1}),
        ct \in {"list", "set", "tuple"}}
ListConfigs ==
    {ListField(ev, mi, rq) :
        ev \in {<<>>} \cup {<<e>> : e \in ElementValidators \cup {PlainFloat}},
        mi \in Opt({1}), rq \in BOOLEAN}
DictConfigs ==
    {DictField(kv, vv, FALSE) : kv \in Opt({PlainString}), vv \in Opt({PlainInt})}
    \cup {DictField(<<>>, <<>>, TRUE)}
FieldConfigs ==
    StringConfigs \cup IntConfigs \cup FloatConfigs \cup DateTimeConfigs \cup ObjectConfigs
    \cup OtherConfigs \cup MultiConfigs \cup ListConfigs \cup DictConfigs

\* ------------------------------------------------- calls on a descriptor
\* A validate that keeps the value it accepted as the descriptor's default.
CallValidate_Remembering(x) ==
    /\ op = "none"
    /\ op' = "validate"
    /\ arg' = x
    /\ result' = Validate(field, x, clock)
    /\ field' = IF result'.kind = "ok" THEN [field EXCEPT !.default = result'.value]
                ELSE field
    /\ UNCHANGED <<clock, composeVars, contextVars, threadVars>>

\* field.validate(x)
CallValidate(x) ==
    /\ op = "none"
    /\ op' = "validate"
    /\ arg' = x
    /\ result' = Validate(field, x, clock)
    /\ UNCHANGED <<field, clock, composeVars, contextVars, threadVars>>

\* field.default
CallDefault ==
    /\ op = "none"
    /\ op' = "default"
    /\ arg' = NoneV
    /\ result' = Default(field, clock)
    /\ UNCHANGED <<field, clock, composeVars, contextVars, threadVars>>

\* The caller takes the outcome.
Return ==
    /\ op # "none"
    /\ op' = "none"
    /\ arg' = NoneV
    /\ result' = Ok(NoneV)
    /\ UNCHANGED <<field, clock, composeVars, contextVars, threadVars>>

\* Between two calls the outside state the producers read changes.
Tick ==
    /\ op = "none"
    /\ clock' \in (0..MaxClock) \ {clock}
    /\ UNCHANGED <<field, op, arg, result, composeVars, contextVars, threadVars>>

InitFields ==
    /\ ThreadsIdle
    /\ ContextsIdle
    /\ numDefined = 0
    /\ dictionary = [t \in Types |-> EmptyDict]
    /\ schema = [t \in Types |-> EmptySchema]
    /\ schema_flexible = [t \in Types |-> TRUE]
    /\ field_name = [f \in Fields |-> CtorFieldName(f)]
    /\ assigned = [f \in Fields |-> <<>>]
    /\ field \in FieldConfigs
    /\ clock = 0
    /\ NoCall

NextFields ==
    \/ \E x \in Values : CallValidate(x)
    \/ CallDefault
    \/ Return
    \/ Tick

SpecFields == InitFields /\ [][NextFields]_vars

\* ============================================================== validation
ListKinds == {"MultiEmbeddedListField", "ListField"}
BoundedKinds == {"IntField", "FloatField", "DateTimeField"}
Range(q) == {q[i] : i \in 1..Len(q)}
VI == "InvalidFieldValueException"
DI == "InvalidFieldDefinition"

\* A validate of a list field with candidate validators on a list, tuple or set.
MultiCall ==
    /\ op = "validate"
    /\ field.kind \in ListKinds
    /\ field.element_validators # <<>>
    /\ arg[1] \in {"list", "tuple", "set"}
\* Candidate c accepts / rejects (value-invalid) the element e.
Accepts(c, e) == ElementValidate(c, e, clock).kind = "ok"
Rejects(c, e) == ElementValidate(c, e, clock).kind = VI
\* The normalized output of the first declared candidate that accepts e.
FirstAccepted(e) ==
    LET vs == field.element_validators
        i == CHOOSE i \in 1..Len(vs) :
                 Accepts(vs[i], e) /\ \A j \in 1..(i - 1) : ~Accepts(vs[j], e)
    IN ElementValidate(vs[i], e, clock).value

\* C4: first match wins: when every element of the input is accepted by at least
\* one candidate, validation does not fail because of an element, and the output
\* container holds, for each element, the normalized output of the first declared
\* candidate that accepts it (in input order for a list container).
C4_FirstMatchWins ==
    (/\ MultiCall
     /\ field.container_type = "list"
     /\ field.max_items = <<>>
     /\ \A e \in Range(Iterate(arg)) :
            \E c \in Range(field.element_validators) : Accepts(c, e))
    => result = Ok(ListV([i \in 1..Len(Iterate(arg)) |-> FirstAccepted(Iterate(arg)[i])]))

\* C5: when some element is rejected (value-invalid) by every declared candidate,
\* the validation fails with a definition-invalid error whose message names each
\* declared candidate.
C5_ExhaustedNamesCandidates ==
    (/\ MultiCall
     /\ \E e \in Range(Iterate(arg)) :
            \A c \in Range(field.element_validators) : Rejects(c, e))
    => /\ result.kind = DI
       /\ \A c \in Range(field.element_validators) : DisplayName(c) \in Range(result.names)

\* Whether x is of a representation the field type accepts or coerces (the
\* behaviour table of the field types).
Acceptable(f, x) ==
    CASE f.kind \in {"StringField", "EmailField"} -> x[1] = "str"
      [] f.kind = "ObjectIdField" -> x[1] = "ObjectId" \/ (x[1] = "str" /\ x[2] = HexString)
      [] f.kind = "EnumField" -> x[1] = "enum" \/ (x[1] = "str" /\ x[2] \in EnumMembers)
      [] f.kind = "IntField" -> x[1] \in {"int", "bool"} \/ (x[1] = "float" /\ x[2] % 2 = 0)
      [] f.kind = "FloatField" -> x[1] \in {"float", "int", "bool"}
      [] f.kind = "BooleanField" -> x[1] = "bool"
      [] f.kind = "DateTimeField" -> x[1] = "datetime" \/ (x[1] = "str" /\ x[2] = "2020-01-01")
      [] f.kind \in ListKinds -> x[1] \in {"list", "tuple", "set"}
      [] f.kind = "DictField" -> x[1] = "dict"
      [] f.kind = "EmbeddedField" ->
             \/ x = DocV(Document)
             \/ x[1] = "dict" /\ \A i \in 1..Len(x[2]) : x[2][i][1][1] = "str"
      [] OTHER -> TRUE
\* The canonical types of the field type.
Canonical(f) ==
    CASE f.kind \in {"StringField", "EmailField"} -> {"str"}
      [] f.kind = "ObjectIdField" -> {"ObjectId"}
      [] f.kind = "EnumField" -> {"enum"}
      [] f.kind = "IntField" -> {"int", "bool"}
      [] f.kind = "FloatField" -> {"float"}
      [] f.kind = "BooleanField" -> {"bool"}
      [] f.kind = "DateTimeField" -> {"datetime"}
      [] f.kind \in ListKinds -> {f.container_type}
      [] f.kind = "DictField" -> {"dict"}
      [] f.kind = "EmbeddedField" -> {"doc"}
      [] OTHER -> {"none", "bool", "int", "float", "str", "ObjectId", "datetime", "enum",
                   "list", "tuple", "set", "dict", "doc"}
\* The field type with no constraint beyond its type.
Unconstrained(f) ==
    /\ ~f.required
    /\ f.choices = <<>> \/ f.kind = "EnumField"
    /\ f.kind = "EnumField" => f.choices = <<{EnumV(m) : m \in EnumMembers}>>
    /\ f.min_value = NoneV /\ f.max_value = NoneV
    /\ f.min_length = <<>> /\ f.max_length = <<>> /\ f.regex = <<>> /\ f.allow_empty
    /\ f.max_items = <<>>
    /\ f.kind # "EmailField"
\* The elements, keys and values of x are acceptable to the validators of f.
PartsAcceptable(f, x) ==
    /\ f.kind = "ListField" /\ f.element_validators # <<>> =>
           \A e \in Range(Iterate(x)) : Acceptable(f.element_validators[1], e)
    /\ f.kind = "MultiEmbeddedListField" => f.element_validators = <<>>
    /\ f.kind = "DictField" =>
           \A i \in 1..Len(x[2]) :
               /\ f.key_validator # <<>> => Acceptable(f.key_validator[1], x[2][i][1])
               /\ f.value_validator # <<>> => Acceptable(f.value_validator[1], x[2][i][2])

\* C7: for every field type, validate of a value outside the allowed types and
\* not coercible fails value-invalid, never otherwise; validate of a value of an
\* accepted or coercible representation succeeds with a value of the canonical type.
C7_TypeCheckOutcome ==
    op = "validate" /\ field.kind # "MultiEmbeddedListField" =>
        /\ ~Acceptable(field, arg) => result.kind = VI
        /\ Acceptable(field, arg) /\ Unconstrained(field) /\ PartsAcceptable(field, arg) =>
               result.kind = "ok" /\ result.value[1] \in Canonical(field)

\* C8: the required check is applied after coercion: a required field given None
\* fails value-invalid, from the type check when None is not of an allowed type
\* and from the required check (never the choices check) when it is; a field that
\* is not required and whose type and choices allow None returns None.
C8_RequiredAfterCoercion ==
    op = "validate" /\ arg = NoneV =>
        /\ field.required =>
               /\ result.kind = VI
               /\ result.cause # "choices"
               /\ result.cause = "required" <=> "object" \in field.allowed_types
        /\ (/\ ~field.required
            /\ "object" \in field.allowed_types
            /\ field.choices = <<>> \/ NoneV \in field.choices[1])
           => result = Ok(NoneV)

\* A required ObjectField whose choices do not hold None was given None and
\* failed on the required check.
C8_Witness ==
    /\ op = "validate" /\ arg = NoneV
    /\ field.kind = "ObjectField" /\ field.required
    /\ field.choices = <<{IntV(1)}>>
    /\ result.kind = VI /\ result.cause = "required"

\* A bound as it resolves now: a producer reads the outside state.
BoundNow(b) ==
    IF b = CallableV("limit") THEN IntV(clock)
    ELSE IF b = CallableV("utcnow") THEN DateV(clock) ELSE b
Below(a, b) == b # NoneV /\ Ord(a) < Ord(b)

\* C9: for a bounded field and a value v that passes the base pipeline, validate
\* fails value-invalid if v < min_value or v > max_value and returns v otherwise,
\* a value equal to a bound included; an absent bound is no limit, and a producer
\* bound is the producer's value at the time of the call.
C9_BoundsInclusive ==
    op = "validate" /\ field.kind \in BoundedKinds /\ BaseValidate(field, arg).kind = "ok" =>
        LET v == BaseValidate(field, arg).value
            mn == BoundNow(field.min_value)
            mx == BoundNow(field.max_value)
        IN IF Below(v, mn) \/ (mx # NoneV /\ Ord(v) > Ord(mx))
           THEN result.kind = VI /\ result.cause \in {"min", "max"}
           ELSE result = Ok(v)

\* A value equal to a producer's min bound, after the producer's value changed,
\* was accepted, and so was one equal to a literal max bound.
C9_Witness ==
    /\ op = "validate" /\ field.kind = "IntField"
    /\ field.min_value = CallableV("limit") /\ clock = 1 /\ arg = IntV(1)
    /\ field.max_value = IntV(1)
    /\ result = Ok(IntV(1))

\* C10: an access to default yields the literal, or what the producer returns at
\* that access; it fails value-invalid exactly when the field is required and the
\* resolved value is None.
C10_DefaultResolution ==
    op = "default" =>
        LET resolved == IF field.default[1] = "callable"
                        THEN CASE field.default[2] = "limit" -> IntV(clock)
                               [] field.default[2] = "utcnow" -> DateV(clock)
                               [] field.default[2] = "list" -> ListV(<<>>)
                               [] field.default[2] = "ObjectId" -> OidV("generated")
                               [] OTHER -> NoneV
                        ELSE field.default
        IN /\ result.kind = VI <=> (field.required /\ resolved = NoneV)
           /\ result.kind # VI => result = Ok(resolved)

\* A producer default was read after the outside state changed.
C10_Witness ==
    /\ op = "default"
    /\ field.default = CallableV("limit") /\ clock = 1 /\ result = Ok(IntV(1))

\* ======================================================= schema composition
\* The schema of the parent class, empty when the parent has none.
ParentSchema(t) == IF HasSchema(Parent(t)) THEN schema[Parent(t)] ELSE EmptySchema
Defined == 1..numDefined

\* C1: after composition, the merged schema of a class maps every field name the
\* class declares itself to the class's own descriptor, every other name of the
\* parent's schema to the parent's descriptor, and holds no other name; a class
\* that declares no field has exactly the parent's schema.
C1_OwnDeclarationsWin ==
    \A t \in Defined :
        LET own == {k \in Names : dictionary[t].attrs[k] \in Fields}
            ps == ParentSchema(t)
        IN /\ DOMAIN schema[t] = own \cup DOMAIN ps
           /\ \A k \in own : schema[t][k] = dictionary[t].attrs[k]
           /\ \A k \in DOMAIN ps \ own : schema[t][k] = ps[k]
           /\ own = {} => schema[t] = ps

\* A child redeclares a field of its parent with another descriptor and inherits
\* another field, and a grandchild declares nothing and has a non-empty schema.
C1_Witness ==
    /\ numDefined >= 3
    /\ \E k \in DOMAIN schema[1] \cap DOMAIN schema[2] :
           /\ dictionary[2].attrs[k] \in Fields
           /\ schema[1][k] # schema[2][k]
    /\ \E k \in DOMAIN schema[1] : dictionary[2].attrs[k] \notin Fields
    /\ \A k \in Names : dictionary[3].attrs[k] \notin Fields
    /\ schema[3] = schema[2]

\* C2: the computed flag of a class is its own declared flag (true when not
\* declared) AND the parent's computed flag (true without a parent schema); so it
\* is false exactly when the class or one of its ancestors declared false.
C2_FlexibleIsConjunction ==
    \A t \in Defined :
        /\ schema_flexible[t] =
               ((dictionary[t].flex # "false")
                /\ (IF HasSchema(Parent(t)) THEN schema_flexible[Parent(t)] ELSE TRUE))
        /\ schema_flexible[t] = (\A a \in 1..t : dictionary[a].flex # "false")

\* The root declares false, its child and grandchild declare nothing or true, and
\* the grandchild is not flexible.
C2_Witness ==
    /\ numDefined >= 3
    /\ dictionary[1].flex = "false"
    /\ dictionary[2].flex = "true"
    /\ dictionary[3].flex = "absent"
    /\ ~schema_flexible[3]

\* The first non-null name descriptor f was given: by its constructor, else by
\* the first assignment.
FirstGiven(f) ==
    IF CtorFieldName(f) # None THEN CtorFieldName(f)
    ELSE IF assigned[f] = <<>> THEN None ELSE assigned[f][1]

\* C6: field_name is write-once: whatever the sequence of assignments (constructor
\* argument, composition of one class, of further classes binding the same
\* descriptor to another attribute), field_name is the first non-null name given.
C6_FieldNameWriteOnce == \A f \in Fields : field_name[f] = FirstGiven(f)

\* A descriptor without a constructor name was bound to two different attribute
\* names and kept the first, and one with a constructor name was bound too.
C6_Witness ==
    /\ \E f \in Fields :
           /\ CtorFieldName(f) = None
           /\ Len(assigned[f]) >= 2
           /\ assigned[f][1] # assigned[f][2]
           /\ field_name[f] = assigned[f][1]
    /\ \E f \in Fields :
           /\ CtorFieldName(f) # None
           /\ assigned[f] # <<>>
           /\ field_name[f] = CtorFieldName(f)

\* ------------------------------------------------- concurrent composition
\* The schema the composition of class t is to yield, from the class bodies.
RECURSIVE ExpectedSchema(_)
ExpectedSchema(t) ==
    IF t = Object THEN EmptySchema
    ELSE LET d == dictionary[t]
             own == {k \in Names : d.attrs[k] \in Fields}
             ps == ExpectedSchema(Parent(t))
         IN [k \in own \cup DOMAIN ps |-> IF k \in own THEN d.attrs[k] ELSE ps[k]]

\* C3: when several contexts trigger the composition of one class, it is performed
\* once, later requests leave the result as it is, and nobody observes a partly
\* merged schema: once a composition of t has returned, t's schema is the whole
\* merged schema.
C3_NoPartialSchemaObserved ==
    \A t \in Types : built[t] => schema[t] = ExpectedSchema(t)

\* ============================================== schemas and calls together
\* Classes are defined while validate and default are called on the descriptor f1,
\* whose configuration is `field`.
\* How many classes of the chain are defined while calls are made.
MaxFrameTypes == 2

\* The values passed to validate while classes are defined.
FrameValues == {NoneV, IntV(1), IntV(5), ListV(<<IntV(1)>>), ListV(<<NoneV>>)}
\* The configurations of f1: a required bounded field with a lazy bound and a
\* lazy default, and a list field with candidates.
FrameConfigs ==
    {IntField(IntV(1), CallableV("limit"), CallableV("none"), <<>>, TRUE),
     MultiEmbeddedListField(<<PlainInt, PlainString>>, <<1>>, "list", FALSE)}

InitFrame ==
    /\ ThreadsIdle
    /\ ContextsIdle
    /\ numDefined = 0
    /\ dictionary = [t \in Types |-> EmptyDict]
    /\ schema = [t \in Types |-> EmptySchema]
    /\ schema_flexible = [t \in Types |-> TRUE]
    /\ field_name = [f \in Fields |-> CtorFieldName(f)]
    /\ assigned = [f \in Fields |-> <<>>]
    /\ field \in FrameConfigs
    /\ clock = 0
    /\ NoCall

NextFrame ==
    \/ \E d \in ClassDicts : \E order \in Orders(DictKeys(d)) :
           /\ numDefined < MaxFrameTypes
           /\ DefineClass(numDefined + 1, d, order)
    \/ \E x \in FrameValues : CallValidate(x)
    \/ CallDefault
    \/ Return
    \/ Tick

SpecFrame == InitFrame /\ [][NextFrame]_vars

\* What a descriptor is configured with, field_name included.
Configuration == <<field, field_name["f1"]>>

\* C11: once a type's schema is composed, no later operation changes it: a
\* validate call, whether it returns or raises, a default resolution and the
\* composition of a subclass leave the schema map and the schema_flexible flag
\* of every composed type as they are, and validate and default leave the
\* configuration of the descriptor as it is.
C11_ComposedSchemaIsFrozen ==
    [][/\ \A t \in 1..numDefined :
              /\ schema'[t] = schema[t]
              /\ schema_flexible'[t] = schema_flexible[t]
       /\ op' # op => /\ schema' = schema
                      /\ schema_flexible' = schema_flexible
                      /\ Configuration' = Configuration]_vars

\* C11 happens: a subclass that redeclares a name of its composed parent has been
\* defined, and a validate call on the descriptor bound in the parent has returned
\* a value that is not the descriptor's default.
C11_Witness ==
    /\ numDefined = 2
    /\ "x" \in DOMAIN schema[1]
    /\ schema[1]["x"] = "f1"
    /\ schema[2]["x"] = "f2"
    /\ op = "validate"
    /\ result.kind = "ok"
    /\ result.value # field.default

\* ================================================ MultiThreadPoolExecutor
\* The generator start() is run by one consumer, line by line; the threads it
\* has started end when they will. A yield hands a thread to the consumer, who
\* resumes the generator.
\* self.is_running: set in __init__ and written nowhere else.
is_running == TRUE

\* The number of entries of self.running_threads.
RunningCount == Cardinality(DOMAIN running_threads)

\* A test that lets a thread in while max_threads are running.
CanExecuteThread_Inclusive == RunningCount <= max_threads

\* can_execute_thread
CanExecuteThread == RunningCount < max_threads

\* The items of running_threads, in an order items() may give them.
Snapshots ==
    {[i \in DOMAIN o |-> <<o[i], running_threads[o[i]]>>] : o \in Orders(DOMAIN running_threads)}

\* MultiThreadPoolExecutor(max_threads, thread_task_list).start() is called.
StartExecutor(m, n) ==
    /\ epc = "idle"
    /\ max_threads' = m
    /\ thread_task_list' = n
    /\ epc' = "fetch"
    /\ UNCHANGED <<finished_threads, started_threads, running_threads, params_count,
                   thread_state, loop, thread, scan, yielded>>
    /\ UNCHANGED <<ormVars, registryVars, barrierVars>>

\* Line 50 with get_threads_to_run: the next task's thread is built, or the
\* list is exhausted.
Fetch ==
    /\ epc = "fetch"
    /\ IF params_count < thread_task_list
       THEN /\ params_count' = params_count + 1
            /\ thread' = params_count + 1
            /\ loop' = "fill"
            /\ epc' = "check"
       ELSE /\ epc' = "drain"
            /\ UNCHANGED <<params_count, thread, loop>>
    /\ UNCHANGED <<max_threads, thread_task_list, finished_threads, started_threads,
                   running_threads, thread_state, scan, yielded>>
    /\ UNCHANGED <<ormVars, registryVars, barrierVars>>

\* Line 51: while not self.can_execute_thread(); line 52 and 41 take the items.
Check ==
    /\ epc = "check"
    /\ IF CanExecuteThread
       THEN epc' = "execute" /\ scan' = scan
       ELSE epc' = "collect" /\ scan' \in Snapshots
    /\ UNCHANGED <<max_threads, thread_task_list, finished_threads, started_threads,
                   running_threads, params_count, thread_state, loop, thread, yielded>>
    /\ UNCHANGED <<ormVars, registryVars, barrierVars>>

\* Lines 41-47, one iteration of get_completed_thread: a thread that is not
\* alive is popped, counted and yielded through start(); for one that is alive
\* the generator sleeps. When the items are exhausted the calling loop tests again.
Collect ==
    /\ epc = "collect"
    /\ IF scan = <<>>
       THEN /\ epc' = IF loop = "fill" THEN "check" ELSE "drain"
            /\ UNCHANGED <<running_threads, finished_threads, yielded, scan>>
       ELSE /\ scan' = Tail(scan)
            /\ epc' = epc
            /\ IF thread_state[Head(scan)[2]] # "alive"
               THEN /\ running_threads' =
                           [k \in DOMAIN running_threads \ {Head(scan)[1]} |-> running_threads[k]]
                    /\ finished_threads' = finished_threads + 1
                    /\ yielded' = Append(yielded, Head(scan)[2])
               ELSE UNCHANGED <<running_threads, finished_threads, yielded>>
    /\ UNCHANGED <<max_threads, thread_task_list, started_threads, params_count,
                   thread_state, loop, thread>>
    /\ UNCHANGED <<ormVars, registryVars, barrierVars>>

\* execute_thread, lines 34-38: the thread is started, counted and stored under
\* the first 8 hex digits of a fresh uuid4, whatever they are.
ExecuteThread(key) ==
    /\ epc = "execute"
    /\ is_running
    /\ thread_state' = [thread_state EXCEPT ![thread] = "alive"]
    /\ started_threads' = started_threads + 1
    /\ running_threads' = [k \in DOMAIN running_threads \cup {key} |->
                               IF k = key THEN thread ELSE running_threads[k]]
    /\ epc' = "fetch"
    /\ UNCHANGED <<max_threads, thread_task_list, finished_threads, params_count,
                   loop, thread, scan, yielded>>
    /\ UNCHANGED <<ormVars, registryVars, barrierVars>>

\* Line 55: while len(self.running_threads) > 0; line 56 and 41 take the items.
Drain ==
    /\ epc = "drain"
    /\ IF RunningCount > 0
       THEN epc' = "collect" /\ loop' = "drain" /\ scan' \in Snapshots
       ELSE epc' = "final" /\ UNCHANGED <<loop, scan>>
    /\ UNCHANGED <<max_threads, thread_task_list, finished_threads, started_threads,
                   running_threads, params_count, thread_state, thread, yielded>>
    /\ UNCHANGED <<ormVars, registryVars, barrierVars>>

\* Lines 59-60: the generator ends, by the exception when the counts differ.
Finish ==
    /\ epc = "final"
    /\ epc' = IF finished_threads # params_count THEN "raised" ELSE "done"
    /\ UNCHANGED <<max_threads, thread_task_list, finished_threads, started_threads,
                   running_threads, params_count, thread_state, loop, thread, scan, yielded>>
    /\ UNCHANGED <<ormVars, registryVars, barrierVars>>

\* The run() of a started thread returns.
ThreadEnds(t) ==
    /\ thread_state[t] = "alive"
    /\ thread_state' = [thread_state EXCEPT ![t] = "dead"]
    /\ UNCHANGED <<max_threads, thread_task_list, finished_threads, started_threads,
                   running_threads, params_count, epc, loop, thread, scan, yielded>>
    /\ UNCHANGED <<ormVars, registryVars, barrierVars>>

InitExecutor ==
    /\ Init

NextExecutor ==
    \/ \E m \in 1..MaxPool, n \in 0..MaxTasks : StartExecutor(m, n)
    \/ Fetch
    \/ Check
    \/ Collect
    \/ \E key \in Keys : ExecuteThread(key)
    \/ Drain
    \/ Finish
    \/ \E t \in Tasks : ThreadEnds(t)

SpecExecutor == InitExecutor /\ [][NextExecutor]_vars

Generator ==
    \/ \E m \in 1..MaxPool, n \in 0..MaxTasks : StartExecutor(m, n)
    \/ Fetch
    \/ Check
    \/ Collect
    \/ \E key \in Keys : ExecuteThread(key)
    \/ Drain
    \/ Finish

\* The consumer keeps iterating and every started thread ends.
SpecExecutorFair ==
    /\ SpecExecutor
    /\ WF_vars(Generator)
    /\ \A t \in Tasks : WF_vars(ThreadEnds(t))

\* The threads start() has yielded.
Yielded == {yielded[i] : i \in DOMAIN yielded}

\* C13: with max_threads >= 1, threads that end and a consumer that keeps
\* iterating, every task is started once, every started thread is yielded once
\* and only when it is no longer alive, and when the generator finishes
\* finished_threads = started_threads = params_count, so that it never ends by
\* the exception 'Finished threads and params count do not match'.
C13_EveryThreadYieldedOnce ==
    /\ \A i, j \in DOMAIN yielded : i # j => yielded[i] # yielded[j]
    /\ \A t \in Yielded : thread_state[t] = "dead"
    /\ started_threads = Cardinality({t \in Tasks : thread_state[t] # "new"})
    /\ epc # "raised"
    /\ epc = "done" =>
           /\ finished_threads = started_threads
           /\ started_threads = params_count
           /\ params_count = thread_task_list
           /\ Yielded = 1..thread_task_list

\* Under that fairness the generator comes to its end, one way or the other.
GeneratorFinishes == <>(epc \in {"done", "raised"})

\* ================================ NamedInstanceMetaClass, SingletonMetaClass
\* Two classes: Named, with metaclass NamedInstanceMetaClass, declares
\* INSTANCE_NAME_INIT_ARG = 'name' and __init__(self, name='a'); Single, with
\* metaclass SingletonMetaClass, declares __init__(self, *args, **kwargs).
DEFAULT_INSTANCE_NAME_KEY == "P2EE_DEFAULT_INSTANCE_NAME"

\* The positional and the keyword arguments of a call; a keyword argument that
\* is not given is NoAttr.
ArgLists == {<<>>, <<"a">>, <<"b">>}
KwargKeys == {"name", DEFAULT_INSTANCE_NAME_KEY}
KwargDicts == {kw \in [KwargKeys -> {NoAttr, "b"}] :
                   kw["name"] = NoAttr \/ kw[DEFAULT_INSTANCE_NAME_KEY] = NoAttr}

\* cls._instance_name_init_arg, as the metaclass __init__ sets it (lines 21-33, 66).
InstanceNameInitArg(k) == IF k = "Single" THEN DEFAULT_INSTANCE_NAME_KEY ELSE "name"
\* cls._default_init_args: get_default_args(dictionary.get('__init__')).
DefaultInitArgs(k) == IF k = "Named" THEN [n \in {"name"} |-> "a"] ELSE NoFunction

\* kwargs.pop(key, None)
Pop(kw, key) == [kw EXCEPT ![key] = NoAttr]

\* _get_instance_name(*args, default_instance_name=default_instance_name, **kwargs)
GetInstanceName(k, args, kw, default_instance_name) ==
    LET instance_name_key == InstanceNameInitArg(k)
    IN IF default_instance_name # NoAttr THEN default_instance_name
       ELSE IF kw[InstanceNameInitArg(k)] # NoAttr THEN kw[InstanceNameInitArg(k)]
       ELSE IF Len(args) > 0 THEN args[1]
       ELSE IF instance_name_key \in DOMAIN DefaultInitArgs(k)
            THEN DefaultInitArgs(k)[instance_name_key]
       ELSE "default_instance"

\* SingletonMetaClass.__call__, line 72: kwargs[DEFAULT_INSTANCE_NAME_KEY] = 'singleton_instance'
SingletonKwargs(k, kw) ==
    IF k = "Single" THEN [kw EXCEPT ![DEFAULT_INSTANCE_NAME_KEY] = "singleton_instance"] ELSE kw

\* Lines 53-54: the name a call resolves to.
ResolveName(k, args, kw) ==
    GetInstanceName(k, args, Pop(SingletonKwargs(k, kw), DEFAULT_INSTANCE_NAME_KEY),
                    SingletonKwargs(k, kw)[DEFAULT_INSTANCE_NAME_KEY])

\* A second test that finds nothing, whatever is registered.
Unregistered_Blind(k, name) == TRUE

\* Line 58: instance_name not in cls._instances, under the lock.
Unregistered(k, name) == name \notin DOMAIN instances[k]

\* cls(*args, **kwargs) by caller c, lines 53-54.
MetaCall(c, k, args, kw) ==
    /\ rpc[c] = "idle"
    /\ call' = [call EXCEPT ![c] = k]
    /\ instance_name' = [instance_name EXCEPT ![c] = ResolveName(k, args, kw)]
    /\ instance' = [instance EXCEPT ![c] = 0]
    /\ rpc' = [rpc EXCEPT ![c] = "test"]
    /\ UNCHANGED <<instances, instance_lock, constructed, returned>>
    /\ UNCHANGED <<ormVars, execVars, barrierVars>>

\* Line 56: if instance_name not in cls._instances
TestRegistered(c) ==
    /\ rpc[c] = "test"
    /\ rpc' = [rpc EXCEPT ![c] =
                   IF instance_name[c] \notin DOMAIN instances[call[c]] THEN "lock" ELSE "return"]
    /\ UNCHANGED <<instances, instance_lock, call, instance_name, instance,
                   constructed, returned>>
    /\ UNCHANGED <<ormVars, execVars, barrierVars>>

\* Line 57: with cls._instance_lock, entered when no caller holds the lock.
AcquireLock(c) ==
    /\ rpc[c] = "lock"
    /\ instance_lock[call[c]] = 0
    /\ instance_lock' = [instance_lock EXCEPT ![call[c]] = c]
    /\ rpc' = [rpc EXCEPT ![c] = "retest"]
    /\ UNCHANGED <<instances, call, instance_name, instance, constructed, returned>>
    /\ UNCHANGED <<ormVars, execVars, barrierVars>>

\* Line 58: the test again, under the lock.
Retest(c) ==
    /\ rpc[c] = "retest"
    /\ rpc' = [rpc EXCEPT ![c] =
                   IF Unregistered(call[c], instance_name[c]) THEN "construct" ELSE "unlock"]
    /\ UNCHANGED <<instances, instance_lock, call, instance_name, instance,
                   constructed, returned>>
    /\ UNCHANGED <<ormVars, execVars, barrierVars>>

\* Line 59: instance = super(NamedInstanceMetaClass, cls).__call__(*args, **kwargs)
ConstructInstance(c) ==
    /\ rpc[c] = "construct"
    /\ instance' = [instance EXCEPT ![c] = Len(constructed) + 1]
    /\ constructed' = Append(constructed, <<call[c], instance_name[c]>>)
    /\ rpc' = [rpc EXCEPT ![c] = "register"]
    /\ UNCHANGED <<instances, instance_lock, call, instance_name, returned>>
    /\ UNCHANGED <<ormVars, execVars, barrierVars>>

\* Line 60: cls._instances[instance_name] = instance
Register(c) ==
    /\ rpc[c] = "register"
    /\ instances' = [instances EXCEPT ![call[c]] =
                         [n \in DOMAIN @ \cup {instance_name[c]} |->
                              IF n = instance_name[c] THEN instance[c] ELSE @[n]]]
    /\ rpc' = [rpc EXCEPT ![c] = "unlock"]
    /\ UNCHANGED <<instance_lock, call, instance_name, instance, constructed, returned>>
    /\ UNCHANGED <<ormVars, execVars, barrierVars>>

\* The end of the with block: the lock is released.
ReleaseLock(c) ==
    /\ rpc[c] = "unlock"
    /\ instance_lock' = [instance_lock EXCEPT ![call[c]] = 0]
    /\ rpc' = [rpc EXCEPT ![c] = "return"]
    /\ UNCHANGED <<instances, call, instance_name, instance, constructed, returned>>
    /\ UNCHANGED <<ormVars, execVars, barrierVars>>

\* Line 61: return cls._instances[instance_name]
ReturnInstance(c) ==
    /\ rpc[c] = "return"
    /\ returned' = returned \cup {<<call[c], instance_name[c],
                                      instances[call[c]][instance_name[c]]>>}
    /\ rpc' = [rpc EXCEPT ![c] = "idle"]
    /\ UNCHANGED <<instances, instance_lock, call, instance_name, instance, constructed>>
    /\ UNCHANGED <<ormVars, execVars, barrierVars>>

InitRegistry ==
    /\ Init

NextRegistry ==
    \E c \in Callers :
        \/ \E k \in Classes, args \in ArgLists, kw \in KwargDicts : MetaCall(c, k, args, kw)
        \/ TestRegistered(c)
        \/ AcquireLock(c)
        \/ Retest(c)
        \/ ConstructInstance(c)
        \/ Register(c)
        \/ ReleaseLock(c)
        \/ ReturnInstance(c)

SpecRegistry == InitRegistry /\ [][NextRegistry]_vars

\* C14: whatever the interleaving of concurrent calls, at most one instance is
\* constructed and registered per class and instance name, a registered
\* instance is never replaced, every call for a name returns that one instance,
\* and every call of a class with SingletonMetaClass resolves to one name and
\* returns one instance.
C14_OneInstancePerName ==
    [][/\ \A i, j \in DOMAIN constructed' : i # j => constructed'[i] # constructed'[j]
       /\ \A k \in Classes : \A n \in DOMAIN instances[k] :
              /\ n \in DOMAIN instances'[k]
              /\ instances'[k][n] = instances[k][n]
       /\ \A r \in returned' :
              /\ r[3] \in DOMAIN constructed'
              /\ constructed'[r[3]] = <<r[1], r[2]>>
       /\ \A r1, r2 \in returned' : r1[1] = "Single" /\ r2[1] = "Single" => r1 = r2]_vars

\* C14 happens: a caller that found no instance took the lock after another
\* had registered one, and a call of Single made with other arguments has
\* returned that instance.
C14_Witness ==
    \E c \in Callers :
        /\ call[c] = "Single"
        /\ rpc[c] = "unlock"
        /\ instance[c] = 0
        /\ \E r \in returned : r[1] = "Single" /\ r[3] = instances["Single"][instance_name[c]]

\* ================================================================ Barrier
\* One Barrier(n) and n threads that each call wait() once; a thread runs
\* wait() line by line. A semaphore is its value: acquire waits until it is
\* positive and takes one, release gives one.
\* self.n
barrier_n == NumWaiters

\* A thread calls wait().
CallWait(w) ==
    /\ bpc[w] = "idle"
    /\ bpc' = [bpc EXCEPT ![w] = "63"]
    /\ UNCHANGED <<count, mutex, barrier>>
    /\ UNCHANGED <<ormVars, execVars, registryVars>>

\* Line 63: self.mutex.acquire()
MutexAcquire(w) ==
    /\ bpc[w] = "63"
    /\ mutex > 0
    /\ mutex' = mutex - 1
    /\ bpc' = [bpc EXCEPT ![w] = "64"]
    /\ UNCHANGED <<count, barrier>>
    /\ UNCHANGED <<ormVars, execVars, registryVars>>

\* Line 64: self.count += 1
Increment(w) ==
    /\ bpc[w] = "64"
    /\ count' = count + 1
    /\ bpc' = [bpc EXCEPT ![w] = "65"]
    /\ UNCHANGED <<mutex, barrier>>
    /\ UNCHANGED <<ormVars, execVars, registryVars>>

\* Line 65: self.mutex.release()
MutexRelease(w) ==
    /\ bpc[w] = "65"
    /\ mutex' = mutex + 1
    /\ bpc' = [bpc EXCEPT ![w] = "66"]
    /\ UNCHANGED <<count, barrier>>
    /\ UNCHANGED <<ormVars, execVars, registryVars>>

\* Line 66: if self.count == self.n, read after the mutex is released.
TestCount(w) ==
    /\ bpc[w] = "66"
    /\ bpc' = [bpc EXCEPT ![w] = IF count = barrier_n THEN "67" ELSE "68"]
    /\ UNCHANGED <<count, mutex, barrier>>
    /\ UNCHANGED <<ormVars, execVars, registryVars>>

\* Line 67: self.barrier.release()
Signal(w) ==
    /\ bpc[w] = "67"
    /\ barrier' = barrier + 1
    /\ bpc' = [bpc EXCEPT ![w] = "68"]
    /\ UNCHANGED <<count, mutex>>
    /\ UNCHANGED <<ormVars, execVars, registryVars>>

\* Line 68: self.barrier.acquire()
TurnstileAcquire(w) ==
    /\ bpc[w] = "68"
    /\ barrier > 0
    /\ barrier' = barrier - 1
    /\ bpc' = [bpc EXCEPT ![w] = "69"]
    /\ UNCHANGED <<count, mutex>>
    /\ UNCHANGED <<ormVars, execVars, registryVars>>

\* A wait() that returns without giving the turnstile back.
TurnstileRelease_Kept(w) ==
    /\ bpc[w] = "69"
    /\ bpc' = [bpc EXCEPT ![w] = "returned"]
    /\ UNCHANGED <<count, mutex, barrier>>
    /\ UNCHANGED <<ormVars, execVars, registryVars>>

\* Line 69: self.barrier.release(), and wait() returns.
TurnstileRelease(w) ==
    /\ bpc[w] = "69"
    /\ barrier' = barrier + 1
    /\ bpc' = [bpc EXCEPT ![w] = "returned"]
    /\ UNCHANGED <<count, mutex>>
    /\ UNCHANGED <<ormVars, execVars, registryVars>>

\* The steps of thread w.
Wait(w) ==
    \/ CallWait(w)
    \/ MutexAcquire(w)
    \/ Increment(w)
    \/ MutexRelease(w)
    \/ TestCount(w)
    \/ Signal(w)
    \/ TurnstileAcquire(w)
    \/ TurnstileRelease(w)

InitBarrier ==
    /\ Init

NextBarrier == \E w \in Waiters : Wait(w)

SpecBarrier == InitBarrier /\ [][NextBarrier]_vars

\* Every thread that can take a step is scheduled in the end.
SpecBarrierFair == SpecBarrier /\ \A w \in Waiters : WF_vars(Wait(w))

\* Every thread has incremented count.
AllEntered == count = barrier_n
AllReturned == \A w \in Waiters : bpc[w] = "returned"

\* C15: with n threads that each call wait() once, whatever the interleaving,
\* no thread returns from wait() before all n have incremented count, and once
\* all n have, every one of them returns in the end.
C15_BarrierHoldsAndOpens ==
    /\ [](\A w \in Waiters : bpc[w] = "returned" => AllEntered)
    /\ (AllEntered ~> AllReturned)

\* C15 happens: every thread has returned, and more than one of them found
\* count = n and opened the barrier.
C15_Witness ==
    /\ AllReturned
    /\ barrier >= 2

====
